---- MODULE Spec2Model ----
(***************************************************************************)
(* Model of the emission profiler: the producer-side resilient channel    *)
(* (class PagePowerMonitor, content script) together with the part of the  *)
(* aggregator's message handler it talks to (background.js, onMessage),    *)
(* and the aggregator itself (class PowerProfiler, background.js) with its *)
(* sampling interval, its message handlers and its tab events.  The        *)
(* specifications of the channel leave the aggregator's fields alone (an   *)
(* ingest is recorded in `delivered`); those of the aggregator leave the   *)
(* channel alone and take the content of each request as an input.         *)
(*                                                                         *)
(* JavaScript runs one macrotask at a time; a promise that is resolved     *)
(* synchronously continues in the microtasks of the same macrotask.  Each  *)
(* action below is therefore one macrotask: a timer callback, an IPC       *)
(* callback, or a handler of the aggregator, followed by every             *)
(* continuation that needs no further event.                               *)
(***************************************************************************)
EXTENDS Naturals, Integers, Sequences, FiniteSets, Bags, TLC

\* ---- program constants -------------------------------------------------
maxPendingMetrics == 10
maxReconnectionAttempts == 5
defaultCO2Intensity == 475   \* gCO2e/kWh
maxHistorySize == 1000       \* capacity of metricsHistory
maxSamples == 3600           \* capacity of samples
samplePeriod == 1000         \* ms, period of the sampling interval
staleAfter == 5000           \* ms, age above which updatePageMetrics deletes an entry

\* ---- bounds of the model -----------------------------------------------
MaxReadings == 3      \* sampling ticks that produce a Reading
MaxThreads  == 2      \* async activities awaiting an IPC answer or a delay
MaxFaults   == 2      \* IPC calls that end in a timeout / runtime error
MaxManual   == 1      \* direct calls of checkConnection
MaxCacheReadings == 11 \* sampling ticks in the buffer-overflow scenario
MaxProbeReadings == 1  \* sampling ticks in the probe scenario
MaxTime == 6000        \* ms, the clock of the aggregator stops here
MaxTicks == 3          \* samples of one profiling run

VARIABLES
  isConnected,          \* this.isConnected
  pendingMetrics,       \* this.pendingMetrics, a sequence of Reading ids
  reconnectionAttempts, \* this.reconnectionAttempts
  metricsInterval,      \* this.metricsInterval holds a live interval handle
  leakedIntervals,      \* some live interval has no handle referring to it any more
  reconnectTimers,      \* pending setTimeout callbacks of scheduleReconnection
  threads,              \* bag of suspended async activities
  net,                  \* requests in transit to the aggregator, in sending order
  back,                 \* responses in transit to the producer, in sending order
  bgAlive,              \* the aggregator (service worker) is running and answers messages
  delivered,            \* Reading ids for which updatePageMetrics ran, in order
  nextId,               \* id of the next Reading (generation order)
  faults,               \* timeouts / runtime errors so far
  manualProbes,         \* direct calls of checkConnection so far
  evicted,              \* history: ids shifted out of pendingMetrics on overflow
  lastCall,             \* history: the last call of sendMessageWithTimeout
  cached,               \* history: payloads given to cacheMetrics since pendingMetrics was last reset
  rebuffered,           \* history: a failed flush has re-buffered entries since that reset
  probesSinceSuccess,   \* history: scheduled probes started since the last successful probe
  delays,               \* history: setTimeout delays of scheduleReconnection since the counter was last reset
  \* -- the aggregator (class PowerProfiler, background.js) --
  samples,              \* this.samples, a sequence of Samples
  startTime,            \* this.startTime
  isProfiling,          \* this.isProfiling
  sampleInterval,       \* this.sampleInterval holds a live interval handle
  tickTimers,           \* live interval timers created by startProfiling
  co2Intensity,         \* this.co2Intensity, gCO2e/kWh
  metricsHistory,       \* this.metricsHistory
  pageMetrics,          \* this.pageMetrics, a map from tab ids to validated metrics
  now,                  \* Date.now(), ms
  response,              \* what the last step called sendResponse with (noResponse: no call)
  call,                 \* history: the last call of a pure function, [fn, arg, out]
  \* -- the page of the producer (times in seconds) --
  signalBuffers,        \* this.metrics: the buffers cpu, memory and network
  perfNow,              \* performance.now(), time since the page's time origin
  timing,               \* performance.timing
  \* -- the extension's key-value store --
  storage               \* chrome.storage.local: the value of the key co2Intensity

monitorVars == <<isConnected, pendingMetrics, reconnectionAttempts, metricsInterval,
          leakedIntervals, reconnectTimers, threads, net, back, bgAlive,
          delivered, nextId, faults, manualProbes, evicted, lastCall,
          cached, rebuffered, probesSinceSuccess, delays>>

profilerVars == <<samples, startTime, isProfiling, sampleInterval, tickTimers, co2Intensity,
                  metricsHistory, pageMetrics, now, response>>

pageVars == <<signalBuffers, perfNow, timing>>

vars == <<monitorVars, profilerVars, call, pageVars, storage>>

\* ---- the producer's fields as one record -------------------------------
\* (lc: isConnected at the call of sendMessageWithTimeout made in this step)
PState == [conn |-> isConnected, pend |-> pendingMetrics,
           att |-> reconnectionAttempts, tm |-> reconnectTimers,
           ev |-> evicted, lc |-> "nocall", ca |-> cached, rb |-> rebuffered,
           dl |-> delays]

SetPState(s) ==
  /\ isConnected' = s.conn
  /\ pendingMetrics' = s.pend
  /\ reconnectionAttempts' = s.att
  /\ reconnectTimers' = s.tm
  /\ evicted' = s.ev
  /\ cached' = s.ca
  /\ rebuffered' = s.rb
  /\ delays' = s.dl

Top(stack) == stack[Len(stack)]
Pop(stack) == SubSeq(stack, 1, Len(stack) - 1)

\* a suspended activity: kind "probe" | "send" await the answer to the request
\* with token tok; kind "delay" awaits the 50 ms timer of the flush loop.
\* stack holds the frames of the flushPendingMetrics calls it is inside of.
ProbeThread(origin, k) ==
  [kind |-> "probe", origin |-> origin, id |-> 0, tok |-> k, stack |-> <<>>]
SendThread(m, stack, k) ==
  [kind |-> "send", origin |-> "metrics", id |-> m, tok |-> k, stack |-> stack]
DelayThread(stack) ==
  [kind |-> "delay", origin |-> "flush", id |-> 0, tok |-> 0, stack |-> stack]

One(t) == SetToBag({t})
\* outcome of a step of the producer: its fields, the activity that stays
\* suspended (if any) and the request it put on the wire (if any)
Res(s, th, req) == [s |-> s, th |-> th, req |-> req]
Ended(s) == Res(s, EmptyBag, <<>>)
Ping(k) == [k |-> "ping", id |-> 0, tok |-> k]
Upd(m, k) == [k |-> "updatePageMetrics", id |-> m, tok |-> k]

\* ---- PagePowerMonitor ---------------------------------------------------

cacheMetricsOffByOne(s, m) ==
  LET p == Append(s.pend, m)
  IN  IF Len(p) >= maxPendingMetrics
        THEN [s EXCEPT !.pend = Tail(p), !.ev = @ \cup {Head(p)},
                       !.ca = Append(@, m)]
        ELSE [s EXCEPT !.pend = p, !.ca = Append(@, m)]

\* cacheMetrics: push, then shift once when over the bound
cacheMetrics(s, m) ==
  LET p == Append(s.pend, m)
  IN  IF Len(p) > maxPendingMetrics
        THEN [s EXCEPT !.pend = Tail(p), !.ev = @ \cup {Head(p)},
                       !.ca = Append(@, m)]
        ELSE [s EXCEPT !.pend = p, !.ca = Append(@, m)]

\* a backoff without the cap
backoffDelayUncapped(attempt) == 1000 * 2^attempt
\* Math.min(1000 * Math.pow(2, this.reconnectionAttempts), 30000)
backoffDelay(attempt) ==
  IF 1000 * 2^attempt < 30000 THEN 1000 * 2^attempt ELSE 30000

\* scheduleReconnection: guard, increment, setTimeout
scheduleReconnection(s) ==
  IF s.att >= maxReconnectionAttempts
    THEN s
    ELSE [s EXCEPT !.att = @ + 1, !.tm = @ + 1,
                   !.dl = Append(@, backoffDelay(s.att + 1))]

IssuedAlways(s) == TRUE

\* sendMessageWithTimeout: the IPC call and its timeout timer are started
\* only when the channel is connected; otherwise resolve(null) at once
Issued(s) == s.conn

\* record the call of sendMessageWithTimeout
Called(s) == [s EXCEPT !.lc = IF s.conn THEN "connected" ELSE "disconnected"]

\* sendMetrics, response === null
sendFailed(s, m) ==
  scheduleReconnection(cacheMetrics([s EXCEPT !.conn = FALSE], m))

\* Array.prototype.indexOf: the first position holding m
indexOf(list, m) ==
  CHOOSE i \in 1..Len(list) : list[i] = m /\ \A j \in 1..(i - 1) : list[j] # m

\* flushPendingMetrics, failure branch: push(...metricsToSend.slice(indexOf(metric)))
rebuffer(s, f) ==
  [s EXCEPT !.pend = @ \o SubSeq(f.list, indexOf(f.list, f.list[f.idx]), Len(f.list)),
            !.rb = TRUE]

\* the caller of a sendMetrics that returned true (or of a flush that returned):
\* the enclosing flush loop waits 50 ms; with no enclosing flush the activity ends
resume(s, stack) ==
  IF stack = <<>> THEN Ended(s) ELSE Res(s, One(DelayThread(stack)), <<>>)

\* flush loop body: sendMetrics(metric) for the current entry of the top frame
flushSend(s, stack, k) ==
  LET f == Top(stack)
      m == f.list[f.idx]
      s1 == Called(s)
  IN  IF Issued(s)
        THEN Res(s1, One(SendThread(m, stack, k)), <<Upd(m, k)>>)
        ELSE resume(rebuffer(sendFailed(s1, m), f), Pop(stack))

\* flushPendingMetrics called with the enclosing frames `stack`
flushPendingMetrics(s, stack, k) ==
  IF ~s.conn \/ s.pend = <<>>
    THEN resume(s, stack)
    ELSE flushSend([s EXCEPT !.pend = <<>>, !.ca = <<>>, !.rb = FALSE],
                   Append(stack, [list |-> s.pend, idx |-> 1]), k)

\* sendMetrics after its await: res is "null", "ok" ({success: true}) or
\* "nack" ({success: false})
sendMetricsDone(s, t, res, k) ==
  IF res = "null"
    THEN LET s1 == sendFailed(s, t.id)
         IN  IF t.stack = <<>>
               THEN Ended(s1)
               ELSE resume(rebuffer(s1, Top(t.stack)), Pop(t.stack))
    ELSE IF res = "ok"
      THEN flushPendingMetrics(s, t.stack, k)
      ELSE resume(s, t.stack)

\* the 50 ms delay of the flush loop elapsed: next entry or end of the loop
flushDelayDone(s, t, k) ==
  LET f == Top(t.stack)
  IN  IF f.idx < Len(f.list)
        THEN flushSend(s, [t.stack EXCEPT ![Len(t.stack)].idx = f.idx + 1], k)
        ELSE resume(s, Pop(t.stack))

\* a probe that keeps the counter on success
checkConnectionResultNoReset(s, res) ==
  IF res = "null" THEN [s EXCEPT !.conn = FALSE]
                  ELSE [s EXCEPT !.conn = TRUE]

\* checkConnection's own assignments after its await:
\* isConnected = response !== null; if connected, reconnectionAttempts = 0
checkConnectionResult(s, res) ==
  IF res = "null" THEN [s EXCEPT !.conn = FALSE]
                  ELSE [s EXCEPT !.conn = TRUE, !.att = 0, !.dl = <<>>]

\* checkConnection after its await, and the caller's continuation
\* (init: schedule on failure; reconnection timer: flush or schedule again)
checkConnectionDone(s, origin, res, k) ==
  LET s1 == checkConnectionResult(s, res)
  IN  IF res = "null"
        THEN IF origin = "manual" THEN Ended(s1)
                                  ELSE Ended(scheduleReconnection(s1))
        ELSE IF origin = "timer" THEN flushPendingMetrics(s1, <<>>, k)
                                 ELSE Ended(s1)

\* checkConnection up to its await
checkConnection(s, origin, k) ==
  LET s1 == Called(s)
  IN  IF Issued(s)
        THEN Res(s1, One(ProbeThread(origin, k)), <<Ping(k)>>)
        ELSE checkConnectionDone(s1, origin, "null", k)

\* collectAndSendMetrics for the Reading m
collectAndSendMetrics(s, m, k) ==
  IF ~s.conn
    THEN Ended(cacheMetrics(s, m))
    ELSE Res(Called(s), One(SendThread(m, <<>>, k)), <<Upd(m, k)>>)

InFlight == BagCardinality(threads)

\* a token no suspended activity other than those in `gone` is using
FreshTok(gone) ==
  LET used == {t.tok : t \in BagToSet(threads (-) gone)}
  IN  CHOOSE k \in 1..(MaxThreads + 1) :
        k \notin used /\ \A j \in 1..(k - 1) : j \in used

Without(q, k) == SelectSeq(q, LAMBDA e : e.tok # k)
Orphaned(q, k) == [i \in 1..Len(q) |-> IF q[i].tok = k THEN [q[i] EXCEPT !.tok = 0] ELSE q[i]]
HasTok(q, k) == \E i \in 1..Len(q) : q[i].tok = k

Awaits(th) == \E t \in BagToSet(th) : t.kind \in {"probe", "send"}

Apply(r, gone, wire) ==
  /\ SetPState(r.s)
  /\ lastCall' = IF r.s.lc = "nocall" THEN lastCall
                 ELSE [conn |-> (r.s.lc = "connected"), ipc |-> r.req # <<>>,
                       timer |-> Awaits(r.th)]
  /\ threads' = (threads (-) gone) (+) r.th
  /\ net' = wire \o r.req

\* ---- state after construction ------------------------------------------
InitMonitor ==
  /\ isConnected = TRUE
  /\ pendingMetrics = <<>>
  /\ reconnectionAttempts = 0
  /\ metricsInterval = TRUE
  /\ leakedIntervals = FALSE
  /\ reconnectTimers = 0
  /\ threads = One(ProbeThread("init", 1))
  /\ net = <<Ping(1)>>
  /\ back = <<>>
  /\ bgAlive \in BOOLEAN
  /\ delivered = <<>>
  /\ nextId = 1
  /\ faults = 0
  /\ manualProbes = 0
  /\ evicted = {}
  /\ lastCall = [conn |-> TRUE, ipc |-> TRUE, timer |-> TRUE]
  /\ cached = <<>>
  /\ rebuffered = FALSE
  /\ probesSinceSuccess = 0
  /\ delays = <<>>

\* ========================================================================
\* PowerProfiler (background.js)
\*
\* Units: time in ms; power in mW; energy in mJ (1 Wh = 3 600 000 mJ, so the
\* energy of one second at p mW, p / 1000 / 3600 Wh, is p mJ); co2e in
\* 1/3 600 000 000 g (energy in mJ times intensity in g/kWh); cpu in percent,
\* memory in MB.  In these units every product and sum of the code is an
\* integer and is computed exactly.
\* ========================================================================

Min(a, b) == IF a < b THEN a ELSE b
Max(a, b) == IF a > b THEN a ELSE b

\* ---- JavaScript values that reach Number() ------------------------------
Num(n) == [t |-> "number", v |-> n]
NaNV == [t |-> "NaN", v |-> 0]
PosInf == [t |-> "Infinity", v |-> 0]
NegInf == [t |-> "-Infinity", v |-> 0]
Undefined == [t |-> "undefined", v |-> 0]
Null == [t |-> "null", v |-> 0]
Bool(b) == [t |-> "boolean", v |-> IF b THEN 1 ELSE 0]
Str(n) == [t |-> "string", v |-> n]      \* a string that spells the number n
Text == [t |-> "text", v |-> 0]          \* a string that spells no number

\* Number(value)
Number(x) ==
  CASE x.t \in {"number", "string", "boolean"} -> Num(x.v)
    [] x.t = "null" -> Num(0)
    [] x.t \in {"NaN", "undefined", "text"} -> NaNV
    [] OTHER -> x
isNaN(x) == Number(x).t = "NaN"
isFinite(x) == Number(x).t = "number"

\* a * b and a + b of JavaScript, operands converted by ToNumber
jsSign(x) == IF x.t = "-Infinity" \/ (x.t = "number" /\ x.v < 0) THEN -1 ELSE 1
jsMul(a, b) ==
  LET x == Number(a)
      y == Number(b)
  IN  IF x.t = "NaN" \/ y.t = "NaN" THEN NaNV
      ELSE IF x.t = "number" /\ y.t = "number" THEN Num(x.v * y.v)
      ELSE IF x = Num(0) \/ y = Num(0) THEN NaNV
      ELSE IF jsSign(x) * jsSign(y) > 0 THEN PosInf ELSE NegInf
jsAdd(a, b) ==
  LET x == Number(a)
      y == Number(b)
  IN  IF x.t = "NaN" \/ y.t = "NaN" THEN NaNV
      ELSE IF x.t = "number" /\ y.t = "number" THEN Num(x.v + y.v)
      ELSE IF x.t = "number" THEN y
      ELSE IF y.t = "number" \/ x = y THEN x
      ELSE NaNV
\* Math.max(n, value)
jsMax(n, value) ==
  LET x == Number(value)
  IN  CASE x.t = "number" -> Num(Max(n, x.v))
        [] x.t = "-Infinity" -> Num(n)
        [] OTHER -> x

\* validateNumber without the clamp from above
validateNumberNoMax(value, min, max) ==
  LET num == Number(value)
  IN  IF isNaN(num) \/ ~isFinite(num) THEN min
      ELSE Max(min, num.v)

\* validateNumber(value, min, max), value a JavaScript value
validateNumber(value, min, max) ==
  LET num == Number(value)
  IN  IF isNaN(num) \/ ~isFinite(num) THEN min
      ELSE Max(min, Min(max, num.v))

\* validatePower(power): NaN -> 0.5 W, clamp to [0.1 W, 100 W]
validatePower(power) ==
  LET num == Number(power)
  IN  IF isNaN(num) \/ ~isFinite(num) THEN 500
      ELSE Max(100, Min(100000, num.v))

\* validatePower of the quotient num / den (den > 0), kept as a fraction
validatePowerRatio(num, den) ==
  IF num < 100 * den THEN [num |-> 100, den |-> 1]
  ELSE IF num > 100000 * den THEN [num |-> 100000, den |-> 1]
  ELSE [num |-> num, den |-> den]

\* the caps of validateNumber(energy, 0, 100) and validateNumber(co2e, 0, 1000):
\* 100 Wh in mJ; 1000 g is 3.6e12 units of co2e, above every integer of the
\* model, and is represented by the largest of them
energyCap == 360000000
co2eCap == 2147483647

\* ---- updatePageMetrics(tabId, metrics) at time t -------------------------
\* a pass that deletes one old entry only
purgeStaleOne(pm, t) ==
  LET old == {id \in DOMAIN pm : t - pm[id].timestamp > staleAfter}
      first == {id \in old : \A other \in old : id <= other}
  IN  [id \in DOMAIN pm \ first |-> pm[id]]
\* the loop that deletes the entries older than 5 seconds
purgeStale(pm, t) ==
  LET kept == {id \in DOMAIN pm : ~(t - pm[id].timestamp > staleAfter)}
  IN  [id \in kept |-> pm[id]]

\* an ingest that keeps the entry of the sender only
updatePageMetricsLatestOnly(pm, tabId, metrics, t) ==
  [id \in {tabId} |->
     [timestamp |-> t,
      cpu |-> validateNumber(metrics.cpu, 0, 100),
      memory |-> validateNumber(metrics.memory, 0, 10000),
      network |-> validateNumber(metrics.network, 0, 1000),
      power |-> validateNumber(metrics.power, 0, 100)]]

updatePageMetrics(pm, tabId, metrics, t) ==
  LET validatedMetrics ==
        [timestamp |-> t,
         cpu |-> validateNumber(metrics.cpu, 0, 100),
         memory |-> validateNumber(metrics.memory, 0, 10000),
         network |-> validateNumber(metrics.network, 0, 1000),
         power |-> validateNumber(metrics.power, 0, 100)]
      set == [id \in DOMAIN pm \cup {tabId} |->
                IF id = tabId THEN validatedMetrics ELSE pm[id]]
  IN  purgeStale(set, t)

\* pageMetrics.delete(tabId)
deleteTab(pm, tabId) == [id \in DOMAIN pm \ {tabId} |-> pm[id]]

\* ---- aggregatePageMetrics() ----------------------------------------------
RECURSIVE SumOver(_, _, _)
SumOver(pm, ids, field) ==
  IF ids = {} THEN 0
  ELSE LET id == CHOOSE x \in ids : TRUE
       IN  pm[id][field] + SumOver(pm, ids \ {id}, field)

aggregatePageMetrics(pm) ==
  [cpuTotal |-> SumOver(pm, DOMAIN pm, "cpu"),
   memoryTotal |-> SumOver(pm, DOMAIN pm, "memory"),
   networkTotal |-> SumOver(pm, DOMAIN pm, "network"),
   tabCount |-> Cardinality(DOMAIN pm),
   tabs |-> DOMAIN pm,
   object |-> "aggregated"]

\* the `metrics: {}` of the fallback sample
noMetrics ==
  [cpuTotal |-> 0, memoryTotal |-> 0, networkTotal |-> 0, tabCount |-> 0,
   tabs |-> {}, object |-> "empty"]

\* ---- estimatePower(metrics) ----------------------------------------------
\* The argument as JavaScript sees it: an object whose fields are JavaScript
\* values (tabs: an array of some length, or any other value), or a value
\* that is no object.  Reading a property of undefined or null throws.
Array(n) == [t |-> "array", v |-> n]
Snapshot(tabCount, cpuTotal, memoryTotal, networkTotal, tabs) ==
  [t |-> "object", tabCount |-> tabCount, cpuTotal |-> cpuTotal,
   memoryTotal |-> memoryTotal, networkTotal |-> networkTotal, tabs |-> tabs]
\* the object aggregatePageMetrics returns
snapshotOf(metrics) ==
  Snapshot(Num(metrics.tabCount), Num(metrics.cpuTotal), Num(metrics.memoryTotal),
           Num(metrics.networkTotal), Array(Cardinality(metrics.tabs)))
throwsOnRead(x) == x.t \in {"undefined", "null"}
\* value.length > 0
hasElements(x) ==
  CASE x.t = "array" -> x.v > 0
    [] x.t \in {"string", "text"} -> TRUE      \* the strings here are not empty
    [] OTHER -> FALSE

\* the additive terms in mW: 0.3 W per tab, 0.02 W per percent of CPU,
\* 0.001 W per MB and per unit of network, 0.1 W if there is a tab
\* a boost that does not look at the tabs
activeTabBoostAlways(tabs) == Num(100)
activeTabBoost(tabs) == IF hasElements(tabs) THEN Num(100) ELSE Num(0)
totalPower(metrics) ==
  LET base == jsMul(Num(300), jsMax(1, metrics.tabCount))
      cpu == jsMul(metrics.cpuTotal, Num(20))
      memory == jsMul(metrics.memoryTotal, Num(1))
      network == jsMul(metrics.networkTotal, Num(1))
  IN  jsAdd(jsAdd(jsAdd(jsAdd(base, cpu), memory), network),
            activeTabBoost(metrics.tabs))

\* an estimate that returns the sum as it is
estimatePowerUnclamped(metrics) ==
  IF throwsOnRead(metrics) \/ throwsOnRead(metrics.tabs) THEN Num(500)
  ELSE totalPower(metrics)

\* try { ...; return validatePower(totalPower) } catch { return 0.5 }
estimatePower(metrics) ==
  IF throwsOnRead(metrics) \/ throwsOnRead(metrics.tabs) THEN Num(500)
  ELSE Num(validatePower(totalPower(metrics)))

\* ---- calculateCO2e(energyWh) ---------------------------------------------
\* a product that is returned unchecked
calculateCO2eUnchecked(energyWh, intensity) ==
  jsMul(jsMul(energyWh, Num(1)), intensity)

\* energyWh / 1000 * co2Intensity; the division is in the unit of co2e
calculateCO2e(energyWh, intensity) ==
  LET energyKWh == jsMul(energyWh, Num(1))
      co2 == jsMul(energyKWh, intensity)
  IN  IF isNaN(co2) \/ ~isFinite(co2) \/ co2.v < 0 THEN Num(0) ELSE co2

\* ---- collectSample() -----------------------------------------------------
\* `validatedPower / 3600`: the energy of one second at that power
perSecond(power) == power * 1

computedSample(pm, intensity, t) ==
  LET aggregatedMetrics == aggregatePageMetrics(pm)
      validatedPower == validatePower(estimatePower(snapshotOf(aggregatedMetrics)))
  IN  [timestamp |-> t, power |-> validatedPower, metrics |-> aggregatedMetrics,
       energy |-> perSecond(validatedPower),
       co2e |-> calculateCO2e(Num(perSecond(validatedPower)), Num(intensity)).v]

defaultSample(intensity, t) ==
  [timestamp |-> t, power |-> 500, metrics |-> noMetrics,
   energy |-> perSecond(500),
   co2e |-> calculateCO2e(Num(perSecond(500)), Num(intensity)).v]

\* a catch block that drops the tick
onThrowSkip(list, intensity, t) == list
\* the catch block: samples.push(defaultSample)
onThrow(list, intensity, t) == Append(list, defaultSample(intensity, t))

\* addToHistory(sample)
addToHistory(history, sample) ==
  LET validatedSample ==
        [timestamp |-> sample.timestamp,
         power |-> validatePower(Num(sample.power)),
         energy |-> validateNumber(Num(sample.energy), 0, energyCap),
         co2e |-> validateNumber(Num(sample.co2e), 0, co2eCap),
         metrics |-> sample.metrics]
      pushed == Append(history, validatedSample)
  IN  IF Len(pushed) > maxHistorySize THEN Tail(pushed) ELSE pushed

\* samples.push(sample) and the trim to the last hour
pushSample(list, sample) ==
  LET pushed == Append(list, sample)
  IN  IF Len(pushed) > maxSamples THEN Tail(pushed) ELSE pushed

\* ---- getCurrentMetrics() -------------------------------------------------
firstSample(list) == list[1]
latestSample(list) == list[Len(list)]

getCurrentMetrics(list, t) ==
  IF Len(list) = 0
    THEN [t |-> "sample", timestamp |-> t, power |-> 0, energy |-> 0,
          co2e |-> 0, metrics |-> noMetrics]
    ELSE LET latest == latestSample(list)
         IN  [t |-> "sample",
              timestamp |-> IF latest.timestamp # 0 THEN latest.timestamp ELSE t,
              power |-> validatePower(Num(latest.power)),
              energy |-> validateNumber(Num(latest.energy), 0, energyCap),
              co2e |-> validateNumber(Num(latest.co2e), 0, co2eCap),
              metrics |-> latest.metrics]

\* ---- getSummary() --------------------------------------------------------
RECURSIVE SumSeq(_, _, _)
SumSeq(list, field, cap) ==
  IF list = <<>> THEN 0
  ELSE validateNumber(Num(Head(list)[field]), 0, cap) + SumSeq(Tail(list), field, cap)

emptySummary ==
  [t |-> "summary", totalEnergy |-> 0, totalCO2e |-> 0,
   avgPower |-> [num |-> 0, den |-> 1], duration |-> 0, sampleCount |-> 0,
   samples |-> <<>>]

\* avgPower = totalEnergy / (count / 3600), a fraction in mW; duration in ms
averageOverNext(totalEnergy, count) == validatePowerRatio(totalEnergy, count + 1)
averageOver(totalEnergy, count) == validatePowerRatio(totalEnergy, count)

getSummary(list) ==
  IF Len(list) = 0 THEN emptySummary
  ELSE LET validSamples ==
             SelectSeq(list, LAMBDA sample : validatePower(Num(sample.power)) > 0)
       IN  IF Len(validSamples) = 0 THEN emptySummary
           ELSE LET totalEnergy == SumSeq(validSamples, "energy", energyCap)
                    totalCO2e == SumSeq(validSamples, "co2e", co2eCap)
                IN  [t |-> "summary", totalEnergy |-> totalEnergy,
                     totalCO2e |-> totalCO2e,
                     avgPower |-> averageOver(totalEnergy, Len(validSamples)),
                     duration |-> validSamples[Len(validSamples)].timestamp
                                    - validSamples[1].timestamp,
                     sampleCount |-> Len(validSamples),
                     samples |-> validSamples]

\* ---- getRangeSummary(startTime, endTime) ---------------------------------
\* (from, to: the arguments startTime and endTime)
\* (endTime - startTime) / 1000: seconds, kept as a fraction of milliseconds
rangeDurationOf(from, to) == [num |-> to - from, den |-> 1000]

\* an empty range that reports no duration
emptyRangeNoDuration(from, to) ==
  [t |-> "range", totalEnergy |-> 0, totalCO2e |-> 0,
   avgPower |-> [num |-> 0, den |-> 1],
   rangeDuration |-> [num |-> 0, den |-> 1000], sampleCount |-> 0]
\* the object returned when no sample passes the filter
emptyRange(from, to) ==
  [t |-> "range", totalEnergy |-> 0, totalCO2e |-> 0,
   avgPower |-> [num |-> 0, den |-> 1],
   rangeDuration |-> rangeDurationOf(from, to), sampleCount |-> 0]

\* avgPower = totalEnergy / (rangeDuration / 3600) in mW: mJ * 1000 / ms
getRangeSummary(list, from, to) ==
  LET rangeSamples ==
        SelectSeq(list, LAMBDA sample :
                          /\ sample.timestamp >= from
                          /\ sample.timestamp <= to
                          /\ validatePower(Num(sample.power)) > 0)
  IN  IF Len(rangeSamples) = 0 THEN emptyRange(from, to)
      ELSE LET totalEnergy == SumSeq(rangeSamples, "energy", energyCap)
               totalCO2e == SumSeq(rangeSamples, "co2e", co2eCap)
               avgPower == IF to - from > 0
                             THEN validatePowerRatio(totalEnergy * 1000,
                                                     to - from)
                             ELSE validatePowerRatio(0, 1)
           IN  [t |-> "range", totalEnergy |-> totalEnergy, totalCO2e |-> totalCO2e,
                avgPower |-> avgPower,
                rangeDuration |-> rangeDurationOf(from, to),
                sampleCount |-> Len(rangeSamples)]

\* ---- formatPowerValue / formatEnergyValue / formatCO2Value ---------------
\* The displayed value is a fraction of the unit; power in mW, energy in mWh,
\* emissions in mg.  "uW", "uWh" stand for the micro units, "kgCO2e",
\* "gCO2e", "mgCO2e" for the units written with a subscript 2.
Shown(num, den, unit, precision) ==
  [value |-> [num |-> num, den |-> den], unit |-> unit, precision |-> precision]

formatPowerValue(power) ==
  LET validatedPower == validatePower(power)
  IN  IF validatedPower >= 1000000 THEN Shown(validatedPower, 1000000, "kW", 3)
      ELSE IF validatedPower >= 1000 THEN Shown(validatedPower, 1000, "W", 3)
      ELSE IF validatedPower >= 1 THEN Shown(validatedPower, 1, "mW", 3)
      ELSE Shown(validatedPower * 1000, 1, "uW", 0)

\* validateNumber(energy, 0, 1000000) Wh in mWh; (co2, 0, 1000000) g in mg
formatCap == 1000000000

formatEnergyValue(energy) ==
  LET validatedEnergy == validateNumber(energy, 0, formatCap)
  IN  IF validatedEnergy >= 1000000 THEN Shown(validatedEnergy, 1000000, "kWh", 3)
      ELSE IF validatedEnergy >= 1000 THEN Shown(validatedEnergy, 1000, "Wh", 3)
      ELSE IF validatedEnergy >= 1 THEN Shown(validatedEnergy, 1, "mWh", 3)
      ELSE Shown(validatedEnergy * 1000, 1, "uWh", 0)

formatCO2Value(co2) ==
  LET validatedCO2 == validateNumber(co2, 0, formatCap)
  IN  IF validatedCO2 >= 1000000 THEN Shown(validatedCO2, 1000000, "kgCO2e", 2)
      ELSE IF validatedCO2 >= 1000 THEN Shown(validatedCO2, 1000, "gCO2e", 1)
      ELSE Shown(validatedCO2, 1, "mgCO2e", 0)

\* ---- sendResponse --------------------------------------------------------
noResponse == [sent |-> FALSE, success |-> FALSE, payload |-> Undefined]
Reply(success, payload) == [sent |-> TRUE, success |-> success, payload |-> payload]
errorReply == Reply(FALSE, [t |-> "error", v |-> 0])

InitProfiler ==
  /\ samples = <<>>
  /\ startTime = 0
  /\ isProfiling = FALSE
  /\ sampleInterval = FALSE
  /\ tickTimers = 0
  /\ co2Intensity = defaultCO2Intensity
  /\ metricsHistory = <<>>
  /\ pageMetrics = <<>>
  /\ now = 0
  /\ response = noResponse

\* no pure function has been called on its own
noCall == [fn |-> "none", arg |-> <<>>, out |-> Undefined, done |-> FALSE]

\* ========================================================================
\* The page of the producer: signal buffers, clocks and navigation timings.
\* Times are in seconds; Date.now() is the epoch time, performance.now() and
\* entry.startTime count from the page's time origin.
\* ========================================================================
timeOrigin == 1700000000   \* Date.now() at the page's time origin (seconds)
networkCap == 1000         \* this.metrics.network keeps at most 1000 entries
memoryCap == 100           \* this.metrics.memory keeps at most 100 entries
cpuCap == 100              \* this.metrics.cpu keeps at most 100 entries
networkWindow == 60        \* getRecentNetwork looks back 60000 ms
memoryPeriod == 5          \* the memory monitor samples every 5000 ms
cpuPeriod == 1             \* the frame counter reports every 1000 ms

DateNow(t) == timeOrigin + t

\* this.metrics.X.push(entry) without the trim
pushNoTrim(buffer, entry, cap) == Append(buffer, entry)

\* this.metrics.X.push(entry); if (length > cap) shift()
pushTrim(buffer, entry, cap) ==
  LET pushed == Append(buffer, entry)
  IN IF Len(pushed) > cap THEN Tail(pushed) ELSE pushed

networkEntry(name, type, t) == [name |-> name, type |-> type, startTime |-> t]
memoryEntry(t, heap) == [timestamp |-> DateNow(t), usedJSHeapSize |-> heap]
cpuEntry(t, fps) ==
  [timestamp |-> DateNow(t), estimate |-> Min(100, (fps * 100) \div 60), fps |-> fps]

getCurrentCPU(m) ==
  IF Len(m.cpu) = 0 THEN 0 ELSE m.cpu[Len(m.cpu)].estimate

\* usedJSHeapSize is kept in MB here, so the division by 1024 / 1024 is done
getCurrentMemory(m) ==
  IF Len(m.memory) = 0 THEN 0 ELSE m.memory[Len(m.memory)].usedJSHeapSize

\* filter(m => m.startTime > Date.now() - 60000)
getRecentNetwork(m, t) ==
  LET oneMinuteAgo == DateNow(t) - networkWindow
  IN SelectSeq(m.network, LAMBDA e : e.startTime > oneMinuteAgo)

getPerformanceTimings(tm) ==
  [loadTime |-> tm.loadEventEnd - tm.navigationStart,
   domReady |-> tm.domContentLoadedEventEnd - tm.navigationStart,
   interactive |-> tm.domInteractive - tm.navigationStart]

\* power in mW: 0.5 W + 0.02 W per CPU percent + 0.001 W per MB + 0.005 W per
\* request, clamped to [0.1 W, 10 W]
calculatePowerEstimate(cpu, memory, network) ==
  Max(100, Min(10000, 500 + cpu * 20 + memory + Len(network) * 5))

collectMetrics(m, t, tm) ==
  LET network == getRecentNetwork(m, t)
  IN [timestamp |-> DateNow(t),
      cpu |-> getCurrentCPU(m),
      memory |-> getCurrentMemory(m),
      network |-> Len(network),
      timings |-> getPerformanceTimings(tm),
      power |-> calculatePowerEstimate(getCurrentCPU(m), getCurrentMemory(m), network)]

\* a page whose document has just started to load
InitPage ==
  /\ signalBuffers = [cpu |-> <<>>, memory |-> <<>>, network |-> <<>>]
  /\ perfNow = 0
  /\ timing = [navigationStart |-> timeOrigin, domInteractive |-> 0,
               domContentLoadedEventEnd |-> 0, loadEventEnd |-> 0]

\* nothing has been saved in chrome.storage.local yet
InitStorage == storage = Undefined

Init == InitMonitor /\ InitProfiler /\ call = noCall /\ InitPage /\ InitStorage

\* ---- producer actions ---------------------------------------------------

\* setInterval callback: collectAndSendMetrics (at most n Readings)
TickN(n) ==
  /\ metricsInterval \/ leakedIntervals
  /\ nextId <= n
  /\ isConnected => InFlight < MaxThreads
  /\ nextId' = nextId + 1
  /\ Apply(collectAndSendMetrics(PState, nextId, FreshTok(EmptyBag)), EmptyBag, net)
  /\ UNCHANGED <<profilerVars, call, pageVars, storage, metricsInterval, leakedIntervals, back, bgAlive, delivered,
                 faults, manualProbes, probesSinceSuccess>>

Tick == TickN(MaxReadings)

\* setTimeout callback of scheduleReconnection
ReconnectTimer ==
  /\ reconnectTimers > 0
  /\ isConnected => InFlight < MaxThreads
  /\ probesSinceSuccess' =
       IF probesSinceSuccess <= maxReconnectionAttempts
         THEN probesSinceSuccess + 1 ELSE probesSinceSuccess
  /\ Apply(checkConnection([PState EXCEPT !.tm = @ - 1], "timer", FreshTok(EmptyBag)),
           EmptyBag, net)
  /\ UNCHANGED <<profilerVars, call, pageVars, storage, metricsInterval, leakedIntervals, back, bgAlive, delivered,
                 nextId, faults, manualProbes>>

\* a direct call of checkConnection
ManualProbe ==
  /\ manualProbes < MaxManual
  /\ isConnected => InFlight < MaxThreads
  /\ manualProbes' = manualProbes + 1
  /\ Apply(checkConnection(PState, "manual", FreshTok(EmptyBag)), EmptyBag, net)
  /\ UNCHANGED <<profilerVars, call, pageVars, storage, metricsInterval, leakedIntervals, back, bgAlive, delivered,
                 nextId, faults, probesSinceSuccess>>

\* chrome.runtime.sendMessage callback with the aggregator's response
Response ==
  /\ back # <<>>
  /\ \E t \in BagToSet(threads) :
       /\ t.tok = Head(back).tok
       /\ back' = Tail(back)
       /\ IF t.kind = "probe"
            THEN /\ Apply(checkConnectionDone(PState, t.origin, "ok", t.tok), One(t), net)
                 /\ probesSinceSuccess' = 0
            ELSE /\ Apply(sendMetricsDone(PState, t, Head(back).res, t.tok), One(t), net)
                 /\ UNCHANGED probesSinceSuccess
  /\ UNCHANGED <<profilerVars, call, pageVars, storage, metricsInterval, leakedIntervals, bgAlive, delivered,
                 nextId, faults, manualProbes>>

\* the timeout timer of sendMessageWithTimeout fires (the request, if still
\* in transit, stays in transit), or the callback reports
\* chrome.runtime.lastError (the request is lost): resolve(null).  The
\* branches for a missing chrome.runtime and for a throwing sendMessage end
\* in the same resolve(null) and the same assignments of the callers.
Timeout ==
  \E t \in BagToSet(threads), lost \in BOOLEAN :
    /\ t.kind \in {"probe", "send"}
    /\ lost => HasTok(net, t.tok)
    /\ faults < MaxFaults
    /\ faults' = faults + 1
    /\ back' = Without(back, t.tok)
    /\ LET wire == IF lost \/ t.kind = "probe" THEN Without(net, t.tok)
                                                ELSE Orphaned(net, t.tok)
       IN  IF t.kind = "probe"
             THEN Apply(checkConnectionDone(PState, t.origin, "null", t.tok), One(t), wire)
             ELSE Apply(sendMetricsDone(PState, t, "null", t.tok), One(t), wire)
    /\ UNCHANGED <<profilerVars, call, pageVars, storage, metricsInterval, leakedIntervals, bgAlive, delivered, nextId,
                   manualProbes, probesSinceSuccess>>

\* the 50 ms timer of the flush loop
FlushDelay ==
  \E t \in BagToSet(threads) :
    /\ t.kind = "delay"
    /\ Apply(flushDelayDone(PState, t, FreshTok(One(t))), One(t), net)
    /\ UNCHANGED <<profilerVars, call, pageVars, storage, metricsInterval, leakedIntervals, back, bgAlive, delivered,
                   nextId, faults, manualProbes, probesSinceSuccess>>

\* stopMonitoring: clears the interval the handle refers to
StopMonitoring ==
  /\ metricsInterval
  /\ metricsInterval' = FALSE
  /\ UNCHANGED <<profilerVars, call, pageVars, storage, isConnected, pendingMetrics, reconnectionAttempts,
                 leakedIntervals, reconnectTimers, threads, net, back, bgAlive,
                 delivered, nextId, faults, manualProbes, evicted, delays, lastCall,
                 cached, rebuffered, probesSinceSuccess>>

\* startMonitoring (window.__chromePowerProfiler.startProfiling):
\* a new interval; the previous handle is overwritten, not cleared
StartMonitoring ==
  /\ metricsInterval' = TRUE
  /\ leakedIntervals' = (leakedIntervals \/ metricsInterval)
  /\ UNCHANGED <<profilerVars, call, pageVars, storage, isConnected, pendingMetrics, reconnectionAttempts,
                 reconnectTimers, threads, net, back, bgAlive, delivered, nextId,
                 faults, manualProbes, evicted, delays, lastCall, cached,
                 rebuffered, probesSinceSuccess>>

\* ---- aggregator (background.js onMessage) -------------------------------

\* case 'updatePageMetrics': stores the metrics when sender.tab is present,
\* answers {success: false} otherwise; the answer reaches nobody when the
\* sender has stopped waiting (tok = 0)
HandleUpdatePageMetrics ==
  \E hasTab \in BOOLEAN :
    /\ bgAlive
    /\ net # <<>>
    /\ Head(net).k = "updatePageMetrics"
    /\ delivered' = IF hasTab THEN Append(delivered, Head(net).id) ELSE delivered
    /\ net' = Tail(net)
    /\ back' = IF Head(net).tok = 0 THEN back
               ELSE Append(back, [tok |-> Head(net).tok,
                                  res |-> IF hasTab THEN "ok" ELSE "nack"])
    /\ UNCHANGED <<profilerVars, call, pageVars, storage, isConnected, pendingMetrics, reconnectionAttempts,
                   metricsInterval, leakedIntervals, reconnectTimers, threads,
                   bgAlive, nextId, faults, manualProbes, evicted, delays, lastCall,
                   cached, rebuffered, probesSinceSuccess>>

\* case 'ping'
HandlePing ==
  /\ bgAlive
  /\ net # <<>>
  /\ Head(net).k = "ping"
  /\ net' = Tail(net)
  /\ back' = Append(back, [tok |-> Head(net).tok, res |-> "ok"])
  /\ UNCHANGED <<profilerVars, call, pageVars, storage, isConnected, pendingMetrics, reconnectionAttempts,
                 metricsInterval, leakedIntervals, reconnectTimers, threads,
                 bgAlive, delivered, nextId, faults, manualProbes, evicted, delays,
                 lastCall, cached, rebuffered, probesSinceSuccess>>

Next ==
  \/ Tick
  \/ ReconnectTimer
  \/ ManualProbe
  \/ Response
  \/ Timeout
  \/ FlushDelay
  \/ StopMonitoring
  \/ StartMonitoring
  \/ HandleUpdatePageMetrics
  \/ HandlePing

Spec == Init /\ [][Next]_vars

\* the buffer-overflow scenario: the same producer and aggregator with a
\* running worker, no manual probe and no teardown; the first sampling tick
\* may find the channel connected, every later one finds it disconnected,
\* and there are enough of them to overflow pendingMetrics
TickB == (nextId > 1 => ~isConnected) /\ TickN(MaxCacheReadings)

NextBuffer ==
  \/ TickB
  \/ ReconnectTimer
  \/ Response
  \/ Timeout
  \/ FlushDelay
  \/ HandleUpdatePageMetrics
  \/ HandlePing

InitBuffer == Init /\ bgAlive

SpecBuffer == InitBuffer /\ [][NextBuffer]_vars

\* the probes alone: reconnection timers, direct calls of checkConnection and
\* one sampling tick that can find the channel down
TickP == TickN(MaxProbeReadings)

NextProbe ==
  \/ TickP
  \/ ReconnectTimer
  \/ ManualProbe
  \/ Response
  \/ Timeout
  \/ FlushDelay
  \/ HandleUpdatePageMetrics
  \/ HandlePing

SpecProbe == Init /\ [][NextProbe]_vars

\* ========================================================================
\* The aggregator: PowerProfiler behind chrome.runtime.onMessage
\* ========================================================================

TabIds == {1, 2}
ClockSteps == {1000, 2000}
\* metrics of an updatePageMetrics request
Readings ==
  {[cpu |-> Num(50), memory |-> Num(200), network |-> Num(10), power |-> Num(2)]}
\* request.intensity of a setCO2Intensity request (Undefined: the field is absent)
Intensities ==
  {Num(-1), Num(1000), Num(1001), NaNV, PosInf, Undefined, Null, Str(500), Text}

\* time passes while no sampling interval is running
Advance ==
  \E d \in ClockSteps :
    /\ ~sampleInterval
    /\ now + d <= MaxTime
    /\ now' = now + d
    /\ UNCHANGED <<monitorVars, call, pageVars, storage, samples, startTime, isProfiling, sampleInterval, tickTimers,
                   co2Intensity, metricsHistory, pageMetrics>>
    /\ response' = noResponse

\* case 'startProfiling' without the early return of a running profiler
StartProfilingUnguarded ==
  /\ response' = Reply(TRUE, Undefined)
  /\ isProfiling' = TRUE
  /\ startTime' = now
  /\ samples' = <<>>
  /\ sampleInterval' = TRUE
  /\ tickTimers' = tickTimers + 1
  /\ UNCHANGED <<monitorVars, call, pageVars, storage, co2Intensity, metricsHistory, pageMetrics, now>>

\* case 'startProfiling'
StartProfiling ==
  /\ response' = Reply(TRUE, Undefined)
  /\ IF isProfiling
       THEN UNCHANGED <<samples, startTime, isProfiling, sampleInterval, tickTimers>>
       ELSE /\ isProfiling' = TRUE
            /\ startTime' = now
            /\ samples' = <<>>
            /\ sampleInterval' = TRUE
            /\ tickTimers' = tickTimers + 1
  /\ UNCHANGED <<monitorVars, call, pageVars, storage, co2Intensity, metricsHistory, pageMetrics, now>>

\* case 'stopProfiling'
StopProfiling ==
  /\ response' = Reply(TRUE, IF ~isProfiling THEN Undefined ELSE getSummary(samples))
  /\ isProfiling' = FALSE
  /\ sampleInterval' = FALSE
  /\ tickTimers' = IF isProfiling /\ sampleInterval THEN tickTimers - 1 ELSE tickTimers
  /\ UNCHANGED <<monitorVars, call, pageVars, storage, samples, startTime, co2Intensity, metricsHistory,
                 pageMetrics, now>>

\* the setInterval callback, d ms after the previous one (or after
\* startProfiling): collectSample(); the computation of the sample
\* (aggregatePageMetrics .. calculateCO2e) either completes or throws
CollectSampleWithin(maxTime, maxTicks) ==
  \E d \in ClockSteps, throws \in BOOLEAN :
    /\ tickTimers > 0
    /\ d >= samplePeriod
    /\ now + d <= maxTime
    /\ Len(samples) < maxTicks
    /\ now' = now + d
    /\ IF throws
         THEN /\ samples' = onThrow(samples, co2Intensity, now')
              /\ UNCHANGED metricsHistory
         ELSE LET sample == computedSample(pageMetrics, co2Intensity, now')
              IN  /\ samples' = pushSample(samples, sample)
                  /\ metricsHistory' = addToHistory(metricsHistory, sample)
    /\ response' = noResponse
    /\ UNCHANGED <<monitorVars, call, pageVars, storage, startTime, isProfiling, sampleInterval, tickTimers,
                   co2Intensity, pageMetrics>>

CollectSample == CollectSampleWithin(MaxTime, MaxTicks)

\* case 'getCurrentMetrics'
GetCurrentMetrics ==
  /\ response' = Reply(TRUE, getCurrentMetrics(samples, now))
  /\ UNCHANGED <<monitorVars, call, pageVars, storage, samples, startTime, isProfiling, sampleInterval, tickTimers,
                 co2Intensity, metricsHistory, pageMetrics, now>>

\* case 'getFullSummary'
GetFullSummary ==
  /\ response' = Reply(TRUE, getSummary(samples))
  /\ UNCHANGED <<monitorVars, call, pageVars, storage, samples, startTime, isProfiling, sampleInterval, tickTimers,
                 co2Intensity, metricsHistory, pageMetrics, now>>

\* case 'getRangeSummary' with request.startTime = a, request.endTime = b
RangeTimes == {0, 1000, 1500, 3000, 6000}
GetRangeSummaryWith(a, b) ==
  /\ response' = Reply(TRUE, getRangeSummary(samples, a, b))
  /\ UNCHANGED <<monitorVars, call, pageVars, storage, samples, startTime, isProfiling, sampleInterval, tickTimers,
                 co2Intensity, metricsHistory, pageMetrics, now>>

GetRangeSummary == \E a, b \in RangeTimes : GetRangeSummaryWith(a, b)

\* case 'setCO2Intensity'
intensityAccepted(v) ==
  LET intensity == Number(v)
  IN  ~isNaN(intensity) /\ isFinite(intensity) /\ intensity.v >= 0 /\ intensity.v <= 1000

\* a handler that also re-prices the samples it holds
SetCO2IntensityRetroactive(v) ==
  /\ IF v # Undefined
       THEN IF intensityAccepted(v)
              THEN /\ co2Intensity' = Number(v).v
                   /\ samples' = [i \in 1..Len(samples) |->
                                   [samples[i] EXCEPT !.co2e = samples[i].energy * Number(v).v]]
                   /\ response' = Reply(TRUE, Undefined)
              ELSE /\ UNCHANGED <<co2Intensity, samples>>
                   /\ response' = errorReply
       ELSE /\ UNCHANGED <<co2Intensity, samples>>
            /\ response' = noResponse
  /\ UNCHANGED <<monitorVars, call, pageVars, storage, startTime, isProfiling, sampleInterval, tickTimers,
                 metricsHistory, pageMetrics, now>>

SetCO2IntensityWith(v) ==
  /\ IF v # Undefined
       THEN IF intensityAccepted(v)
              THEN /\ co2Intensity' = Number(v).v
                   /\ response' = Reply(TRUE, Undefined)
              ELSE /\ UNCHANGED co2Intensity
                   /\ response' = errorReply
       ELSE /\ UNCHANGED co2Intensity
            /\ response' = noResponse
  /\ UNCHANGED <<monitorVars, call, pageVars, storage, samples, startTime, isProfiling, sampleInterval, tickTimers,
                 metricsHistory, pageMetrics, now>>

SetCO2Intensity == \E v \in Intensities : SetCO2IntensityWith(v)

\* case 'updatePageMetrics' from a tab in `tabs` with metrics from `inputs`;
\* tab 0: the request has no sender.tab
UpdatePageMetricsFrom(tabs, inputs) ==
  \E tab \in tabs \cup {0}, metrics \in inputs :
    /\ IF tab # 0
         THEN /\ pageMetrics' = updatePageMetrics(pageMetrics, tab, metrics, now)
              /\ response' = Reply(TRUE, Undefined)
         ELSE /\ UNCHANGED pageMetrics
              /\ response' = errorReply
    /\ UNCHANGED <<monitorVars, call, pageVars, storage, samples, startTime, isProfiling, sampleInterval, tickTimers,
                   co2Intensity, metricsHistory, now>>

UpdatePageMetrics == UpdatePageMetricsFrom({1}, Readings)

\* chrome.tabs.onRemoved
TabRemovedOf(tab) ==
  /\ pageMetrics' = deleteTab(pageMetrics, tab)
  /\ response' = noResponse
  /\ UNCHANGED <<monitorVars, call, pageVars, storage, samples, startTime, isProfiling, sampleInterval, tickTimers,
                 co2Intensity, metricsHistory, now>>

TabRemoved == \E tab \in TabIds : TabRemovedOf(tab)

\* chrome.tabs.onUpdated with changeInfo.status = 'loading'
TabLoading ==
  \E tab \in TabIds :
    /\ pageMetrics' = deleteTab(pageMetrics, tab)
    /\ response' = noResponse
    /\ UNCHANGED <<monitorVars, call, pageVars, storage, samples, startTime, isProfiling, sampleInterval, tickTimers,
                   co2Intensity, metricsHistory, now>>

NextProfiler ==
  \/ Advance
  \/ StartProfiling
  \/ StopProfiling
  \/ CollectSample
  \/ GetCurrentMetrics
  \/ GetFullSummary
  \/ UpdatePageMetrics
  \/ TabRemoved
  \/ TabLoading

InitAggregator == Init /\ bgAlive

\* ingest from two tabs of readings with one field outside its domain
typicalReading ==
  [cpu |-> Num(50), memory |-> Num(200), network |-> Num(10), power |-> Num(2)]
OddValues == {Num(-5), Num(150), NaNV, PosInf, NegInf, Undefined, Null, Str(70), Text}
WideReadings ==
  {[typicalReading EXCEPT !.cpu = x] : x \in OddValues}
    \cup {[typicalReading EXCEPT !.memory = x] : x \in {Num(-1), Num(20000), NaNV}}
    \cup {[typicalReading EXCEPT !.network = x] : x \in {Num(-3), Num(5000), PosInf}}
    \cup {[typicalReading EXCEPT !.power = x] : x \in {Num(-2), Num(500), Undefined}}
    \cup {typicalReading}

UpdatePageMetricsWide == UpdatePageMetricsFrom(TabIds, WideReadings)

NextIngest ==
  \/ Advance
  \/ UpdatePageMetricsWide
  \/ TabRemoved

SpecIngest == InitAggregator /\ [][NextIngest]_vars

\* a long profiling run: the state after startProfiling at time 0 and n
\* ticks one second apart with no source and no exception
RunOf(n) == [i \in 1..n |-> computedSample(<<>>, defaultCO2Intensity, i * samplePeriod)]
HistoryOf(n) ==
  [i \in 1..Min(n, maxHistorySize) |->
     computedSample(<<>>, defaultCO2Intensity, (n - Min(n, maxHistorySize) + i) * samplePeriod)]

InitLongRun ==
  /\ InitMonitor /\ bgAlive /\ InitPage /\ InitStorage
  /\ \E n \in {maxSamples - 1} :
       /\ samples = RunOf(n)
       /\ metricsHistory = HistoryOf(n)
       /\ now = n * samplePeriod
  /\ startTime = 0
  /\ isProfiling = TRUE
  /\ sampleInterval = TRUE
  /\ tickTimers = 1
  /\ co2Intensity = defaultCO2Intensity
  /\ pageMetrics = <<>>
  /\ response = noResponse
  /\ call = noCall

CollectSampleLong ==
  CollectSampleWithin((maxSamples - 1) * samplePeriod + MaxTime, maxSamples + MaxTicks)

NextLongRun == CollectSampleLong

SpecLongRun == InitLongRun /\ [][NextLongRun]_vars

\* configuration of the carbon intensity while profiling
\* ---- direct calls of the pure methods ----------------------------------
\* values a field of a snapshot can hold
FieldValues ==
  {Num(0), Num(2), Num(-100), Num(100000), NaNV, PosInf, NegInf, Undefined,
   Null, Str(7), Text}
TabsValues == {Array(0), Array(2), Undefined, Null, Num(3), Text}
Snapshots ==
  {Snapshot(a, b, c, d, e) : a \in {Num(0), Num(2), NaNV, PosInf, NegInf, Undefined, Null, Str(7)},
                             b \in FieldValues, c \in FieldValues,
                             d \in {Num(0), Num(100000), NaNV, NegInf, Undefined},
                             e \in TabsValues}
    \cup {Undefined, Null}

\* magnitudes in mW, mWh or mg, and values that are no magnitude
Magnitudes ==
  {Num(0), Num(1), Num(50), Num(999), Num(1000), Num(5000), Num(100000),
   Num(999999), Num(1000000), Num(1500000), Num(1000000000), Num(2000000000),
   Num(-1), Num(-300), NaNV, PosInf, NegInf, Undefined, Null, Str(2500), Text}

Pending(fn, arg) == [fn |-> fn, arg |-> arg, out |-> Undefined, done |-> FALSE]
Returned(c, out) == [c EXCEPT !.out = out, !.done = TRUE]

CalcCalls ==
  {Pending("estimatePower", m) : m \in Snapshots}
    \cup {Pending(fn, x) : fn \in {"formatPowerValue", "formatEnergyValue",
                                    "formatCO2Value"},
                           x \in Magnitudes}

CallOf(fn) ==
  /\ call.fn = fn
  /\ ~call.done
  /\ UNCHANGED <<monitorVars, profilerVars, pageVars, storage>>

EstimatePower ==
  /\ CallOf("estimatePower")
  /\ call' = Returned(call, estimatePower(call.arg))
FormatPowerValue ==
  /\ CallOf("formatPowerValue")
  /\ call' = Returned(call, formatPowerValue(call.arg))
FormatEnergyValue ==
  /\ CallOf("formatEnergyValue")
  /\ call' = Returned(call, formatEnergyValue(call.arg))
FormatCO2Value ==
  /\ CallOf("formatCO2Value")
  /\ call' = Returned(call, formatCO2Value(call.arg))

InitCalc ==
  InitMonitor /\ bgAlive /\ InitProfiler /\ InitPage /\ InitStorage /\ call \in CalcCalls

NextCalc ==
  \/ EstimatePower
  \/ FormatPowerValue
  \/ FormatEnergyValue
  \/ FormatCO2Value

SpecCalc == InitCalc /\ [][NextCalc]_vars

\* calculateCO2e: called directly on an energy and a co2Intensity of any kind,
\* or by the ticks of a session after setCO2Intensity(0)
Energies ==
  {Num(0), Num(300), Num(100000), Num(-300), NaNV, PosInf, NegInf, Undefined,
   Null, Text}
IntensityValues ==
  {Num(0), Num(475), Num(1000), Num(-1), NaNV, PosInf, NegInf, Undefined, Text}
EmissionCalls ==
  {Pending("calculateCO2e", <<e, i>>) : e \in Energies, i \in IntensityValues}

CalculateCO2e ==
  /\ CallOf("calculateCO2e")
  /\ call' = Returned(call, calculateCO2e(call.arg[1], call.arg[2]))

SetCO2IntensityZero == SetCO2IntensityWith(Num(0))

InitEmissions ==
  /\ InitMonitor /\ bgAlive /\ InitProfiler /\ InitPage /\ InitStorage
  /\ call \in EmissionCalls \cup {noCall}

NextEmissions ==
  \/ CalculateCO2e
  \/ call = noCall /\ SetCO2IntensityZero
  \/ call = noCall /\ StartProfiling
  \/ call = noCall /\ CollectSample
  \/ call = noCall /\ UpdatePageMetrics

SpecEmissions == InitEmissions /\ [][NextEmissions]_vars

\* ingests of a few different readings from two tabs
OrderReadings ==
  {typicalReading, [typicalReading EXCEPT !.cpu = Num(150)],
   [typicalReading EXCEPT !.memory = NaNV, !.network = Num(7)]}

UpdatePageMetricsSome == UpdatePageMetricsFrom(TabIds, OrderReadings)

NextOrder ==
  \/ Advance
  \/ UpdatePageMetricsSome
  \/ TabRemoved

SpecOrder == InitAggregator /\ [][NextOrder]_vars

\* range queries during a session
NextRange ==
  \/ StartProfiling
  \/ CollectSample
  \/ GetRangeSummary

SpecRange == InitAggregator /\ [][NextRange]_vars

NextIntensity ==
  \/ SetCO2Intensity
  \/ StartProfiling
  \/ CollectSample

SpecIntensity == InitAggregator /\ [][NextIntensity]_vars

SpecProfiler == InitAggregator /\ [][NextProfiler]_vars

\* ========================================================================
\* The page of the producer: actions
\* ========================================================================
MaxPageTime == 61      \* seconds, the clock of a fresh page stops here
MaxEvents == 2         \* performance entries observed on a fresh page
MaxSignals == 1        \* memory samples and CPU reports of a fresh page
MaxBatch == 2          \* entries in one PerformanceObserver callback
PageSteps == {30, 31}
EntryTypes == {"resource", "navigation", "paint"}
HeapSizes == {10, 50}      \* performance.memory.usedJSHeapSize in MB
FrameCounts == {30, 120}   \* frames counted in one second

observed(buffer) == IF Len(buffer) = 0 THEN 0 ELSE buffer[Len(buffer)].name
lastStamp(buffer) == IF Len(buffer) = 0 THEN 0 ELSE buffer[Len(buffer)].timestamp

\* time passes on the page
PageAdvanceUpTo(maxTime) ==
  \E d \in PageSteps :
    /\ perfNow + d <= maxTime
    /\ perfNow' = perfNow + d
    /\ UNCHANGED <<monitorVars, profilerVars, call, storage, signalBuffers, timing>>

\* the document reaches its next milestone: domInteractive,
\* domContentLoadedEventEnd, loadEventEnd
PageLoads ==
  /\ timing.loadEventEnd = 0
  /\ timing' = IF timing.domInteractive = 0
                 THEN [timing EXCEPT !.domInteractive = DateNow(perfNow)]
               ELSE IF timing.domContentLoadedEventEnd = 0
                 THEN [timing EXCEPT !.domContentLoadedEventEnd = DateNow(perfNow)]
               ELSE [timing EXCEPT !.loadEventEnd = DateNow(perfNow)]
  /\ UNCHANGED <<monitorVars, profilerVars, call, storage, signalBuffers, perfNow>>

\* entries.forEach(entry => { push; trim })
RECURSIVE pushEntries(_, _, _)
pushEntries(buffer, types, t) ==
  IF types = <<>> THEN buffer
  ELSE pushEntries(pushTrim(buffer, networkEntry(observed(buffer) + 1, Head(types), t),
                            networkCap),
                   Tail(types), t)

\* the PerformanceObserver callback with a list of one or more entries
ResourceObservedUpTo(maxEvents) ==
  \E n \in 1..MaxBatch : \E types \in [1..n -> EntryTypes] :
    /\ observed(signalBuffers.network) + n <= maxEvents
    /\ signalBuffers' = [signalBuffers EXCEPT
                           !.network = pushEntries(signalBuffers.network, types, perfNow)]
    /\ UNCHANGED <<monitorVars, profilerVars, call, storage, perfNow, timing>>

\* the memory interval, every 5 s
MemorySampleUpTo(maxSignals) ==
  \E heap \in HeapSizes :
    /\ Len(signalBuffers.memory) < maxSignals
    /\ DateNow(perfNow) - lastStamp(signalBuffers.memory) >= memoryPeriod
    /\ signalBuffers' = [signalBuffers EXCEPT
                           !.memory = pushTrim(signalBuffers.memory,
                                               memoryEntry(perfNow, heap), memoryCap)]
    /\ UNCHANGED <<monitorVars, profilerVars, call, storage, perfNow, timing>>

\* measureCPU on the first frame after a full second
CPUSampleUpTo(maxSignals) ==
  \E fps \in FrameCounts :
    /\ Len(signalBuffers.cpu) < maxSignals
    /\ DateNow(perfNow) - lastStamp(signalBuffers.cpu) >= cpuPeriod
    /\ signalBuffers' = [signalBuffers EXCEPT
                           !.cpu = pushTrim(signalBuffers.cpu, cpuEntry(perfNow, fps), cpuCap)]
    /\ UNCHANGED <<monitorVars, profilerVars, call, storage, perfNow, timing>>

\* collectMetrics(), as the sampling tick and getMetrics call it
CollectMetrics ==
  /\ call' = Returned(Pending("collectMetrics", perfNow),
                      collectMetrics(signalBuffers, perfNow, timing))
  /\ UNCHANGED <<monitorVars, profilerVars, pageVars, storage>>

PageAdvance == PageAdvanceUpTo(MaxPageTime)
ResourceObserved == ResourceObservedUpTo(MaxEvents)
MemorySample == MemorySampleUpTo(MaxSignals)
CPUSample == CPUSampleUpTo(MaxSignals)

\* the page runs until one Reading is collected
NextPage ==
  \/ call = noCall /\ PageAdvance
  \/ call = noCall /\ PageLoads
  \/ call = noCall /\ ResourceObserved
  \/ call = noCall /\ MemorySample
  \/ call = noCall /\ CPUSample
  \/ call = noCall /\ CollectMetrics

SpecPage == Init /\ [][NextPage]_vars

\* ---- a page that has been open for a long time --------------------------
LongPageTime == 500    \* seconds the long-lived page has been open
InitSignals ==
  /\ InitMonitor /\ bgAlive /\ InitProfiler /\ InitStorage /\ call = noCall
  /\ perfNow = LongPageTime
  /\ timing = [navigationStart |-> timeOrigin, domInteractive |-> timeOrigin + 1,
               domContentLoadedEventEnd |-> timeOrigin + 1,
               loadEventEnd |-> timeOrigin + 2]
  /\ signalBuffers =
       [network |-> [i \in 1..(networkCap - 1) |-> networkEntry(i, "resource", i \div 3)],
        memory |-> [i \in 1..memoryCap |-> memoryEntry(memoryPeriod * i, 10)],
        cpu |-> [i \in 1..cpuCap |-> cpuEntry(LongPageTime - cpuCap + i, 60)]]

PageAdvanceLong == PageAdvanceUpTo(LongPageTime + 31)
ResourceObservedLong == ResourceObservedUpTo(networkCap + MaxEvents)
MemorySampleLong == MemorySampleUpTo(memoryCap + 1)
CPUSampleLong == CPUSampleUpTo(cpuCap + 1)

NextSignals ==
  \/ PageAdvanceLong
  \/ ResourceObservedLong
  \/ MemorySampleLong
  \/ CPUSampleLong

SpecSignals == InitSignals /\ [][NextSignals]_vars

\* ========================================================================
\* The settings of the popup and the life cycle of the service worker
\* ========================================================================
\* the text of the co2Intensity input field
SettingsInputs == {Str(0), Str(300), Str(1000), Str(1001), Str(-1), Text}

\* parseFloat of the text of an input field
parseFloat(x) == IF x.t = "string" THEN Num(x.v) ELSE NaNV

\* saveSettings of the popup: validate, chrome.storage.local.set, then the
\* setCO2Intensity request, which the service worker handles or which gets
\* no response
SaveSettings ==
  \E input \in SettingsInputs, handled \in BOOLEAN :
    LET intensity == parseFloat(input)
    IN  /\ IF isNaN(intensity) \/ intensity.v < 0 \/ intensity.v > 1000
             THEN UNCHANGED <<storage, co2Intensity, response>>
             ELSE /\ storage' = intensity
                  /\ IF handled
                       THEN IF intensityAccepted(intensity)
                              THEN /\ co2Intensity' = Number(intensity).v
                                   /\ response' = Reply(TRUE, Undefined)
                              ELSE /\ UNCHANGED co2Intensity
                                   /\ response' = errorReply
                       ELSE /\ UNCHANGED co2Intensity
                            /\ response' = noResponse
        /\ UNCHANGED <<monitorVars, call, pageVars, samples, startTime, isProfiling,
                       sampleInterval, tickTimers, metricsHistory, pageMetrics, now>>

\* the browser stops the service worker and starts it again:
\* const profiler = new PowerProfiler()
RestartWorker ==
  /\ samples' = <<>>
  /\ startTime' = now
  /\ isProfiling' = FALSE
  /\ sampleInterval' = FALSE
  /\ tickTimers' = 0
  /\ co2Intensity' = defaultCO2Intensity
  /\ metricsHistory' = <<>>
  /\ pageMetrics' = <<>>
  /\ response' = noResponse
  /\ UNCHANGED <<monitorVars, call, pageVars, storage, now>>

NextSettings ==
  \/ SaveSettings
  \/ RestartWorker
  \/ StartProfiling
  \/ CollectSample

SpecSettings == InitAggregator /\ [][NextSettings]_vars

\* ========================================================================
\* Claims
\* ========================================================================

Range(q) == {q[i] : i \in 1..Len(q)}
LastN(q, n) == IF Len(q) <= n THEN q ELSE SubSeq(q, Len(q) - n + 1, Len(q))
Completes(t) == CopiesIn(t, threads') < CopiesIn(t, threads)
TimerProbeInFlight(th) ==
  \E t \in BagToSet(th) : t.kind = "probe" /\ t.origin = "timer"
ManualProbeInFlight(th) ==
  \E t \in BagToSet(th) : t.kind = "probe" /\ t.origin = "manual"

\* C1: a scheduled probe (the reconnection timer's checkConnection) that runs
\* on a disconnected channel with attempts left while the aggregator answers
\* pings brings the channel back to CONNECTED: when the timer's step is over
\* the channel is connected or the probe's ping is on its way.
C1_ScheduledProbeReconnects ==
  [][(ReconnectTimer /\ ~isConnected /\ bgAlive
        /\ reconnectionAttempts < maxReconnectionAttempts)
       => (isConnected' \/ TimerProbeInFlight(threads'))]_vars

\* C2: the number of probes started by scheduleReconnection's timers since
\* the last successful probe never exceeds maxReconnectionAttempts.
C2_AtMostMaxProbes == probesSinceSuccess <= maxReconnectionAttempts

\* C3: in GIVING_UP (disconnected, reconnectionAttempts = max) a direct call
\* of checkConnection made while the aggregator answers pings connects the
\* channel and resets reconnectionAttempts to 0.
C3_ManualProbeReconnects ==
  [][(ManualProbe /\ ~isConnected /\ bgAlive
        /\ reconnectionAttempts = maxReconnectionAttempts)
       => ((isConnected' /\ reconnectionAttempts' = 0)
           \/ ManualProbeInFlight(threads'))]_vars

\* C4: when a flush of three distinct buffered payloads [p1, p2, p3] loses the
\* send of p2 after p1 succeeded (nothing else was buffered meanwhile), the
\* pending buffer afterwards is exactly [p2, p3] and p3 is not being sent.
C4_FlushFailureRebuffers ==
  [][\A t \in BagToSet(threads) :
       (/\ t.kind = "send"
        /\ Len(t.stack) = 1
        /\ Len(t.stack[1].list) = 3
        /\ Cardinality(Range(t.stack[1].list)) = 3
        /\ t.stack[1].idx = 2
        /\ t.stack[1].list[1] \in Range(delivered)
        /\ pendingMetrics = <<>>
        /\ faults' = faults + 1
        /\ Completes(t))
       => (/\ pendingMetrics' = SubSeq(t.stack[1].list, 2, 3)
           /\ \A u \in BagToSet(threads') :
                ~(u.kind = "send" /\ u.stack # <<>> /\ u.id = t.stack[1].list[3]))]_vars

\* Readings a suspended activity still holds: the one being sent, the
\* entries of the flushes it is inside of, and requests still in transit
Held ==
  UNION {{t.id} \cup UNION {Range(t.stack[i].list) : i \in 1..Len(t.stack)}
           : t \in BagToSet(threads)}
    \cup {net[i].id : i \in 1..Len(net)}

\* C5: every Reading produced by a sampling tick is stored by the aggregator,
\* or still in pendingMetrics, or was evicted from pendingMetrics on overflow
\* (or is still being sent), whatever the aggregator answers.
C5_LostOnlyByOverflow ==
  \A r \in 1..(nextId - 1) :
    r \in Range(delivered) \cup Range(pendingMetrics) \cup evicted \cup Held

\* C6: updatePageMetrics runs at most once for each Reading.
C6_NoDoubleDelivery ==
  \A i, j \in 1..Len(delivered) : i # j => delivered[i] # delivered[j]

\* C7: Readings reach the aggregator in the order they were generated.
C7_DeliveredInOrder ==
  \A i, j \in 1..Len(delivered) : i < j => delivered[i] <= delivered[j]

\* C8: a call of sendMessageWithTimeout on a disconnected channel puts no
\* request on the wire and leaves no timeout timer waiting.
C8_FailFast == ~lastCall.conn => (~lastCall.ipc /\ ~lastCall.timer)

C8_Witness == ~lastCall.conn /\ ~lastCall.ipc /\ ~lastCall.timer /\ ~isConnected

C10_TeardownCancels ==
  [][(~metricsInterval /\ ~metricsInterval')
       => (/\ ~ReconnectTimer
           /\ reconnectTimers' <= reconnectTimers
           /\ (\E t \in BagToSet(threads) : t.kind = "send" /\ Completes(t))
                => (/\ isConnected' = isConnected
                    /\ pendingMetrics' = pendingMetrics
                    /\ reconnectionAttempts' = reconnectionAttempts))]_vars

\* ---- claims about the buffer bound and the reconnection backoff --------

\* C28: the pending buffer never holds more than maxPendingMetrics entries,
\* a flush that fails and puts its unsent entries back included.
C28_PendingBounded == Len(pendingMetrics) <= maxPendingMetrics

\* the delays of five successive schedulings
backoffSchedule == <<2000, 4000, 8000, 16000, 30000>>

\* C29: the delays scheduleReconnection has armed since the counter was last
\* reset are min(1000 * 2^attempt, 30000) for attempt = 1, 2, ...: 2000, 4000,
\* 8000, 16000, 30000, non-decreasing and at most 30000, and
\* reconnectionAttempts never exceeds maxReconnectionAttempts.
C29_BackoffDelays ==
  /\ reconnectionAttempts <= maxReconnectionAttempts
  /\ delays = SubSeq(backoffSchedule, 1, reconnectionAttempts)
  /\ \A i \in 1..Len(delays) :
       /\ delays[i] <= 30000
       /\ i > 1 => delays[i - 1] <= delays[i]

C29_Witness ==
  /\ reconnectionAttempts = maxReconnectionAttempts
  /\ Len(delays) = maxReconnectionAttempts
  /\ delays[maxReconnectionAttempts] = 30000

\* C30: a probe that completes with a response leaves the channel connected
\* and reconnectionAttempts at 0; a probe that fails does not change
\* reconnectionAttempts itself (a direct call leaves it as it was; after a
\* scheduled one the only change is the increment of the next
\* scheduleReconnection).
C30_ProbeResetsCounter ==
  [][/\ \A t \in BagToSet(threads) :
          (t.kind = "probe" /\ Completes(t)) =>
            IF faults' = faults
              THEN isConnected' /\ reconnectionAttempts' = 0
              ELSE /\ ~isConnected'
                   /\ checkConnectionResult(PState, "null").att = reconnectionAttempts
                   /\ reconnectionAttempts' =
                        IF t.origin = "manual"
                             \/ reconnectionAttempts >= maxReconnectionAttempts
                          THEN reconnectionAttempts
                          ELSE reconnectionAttempts + 1
     /\ (ManualProbe /\ ~isConnected)
          => reconnectionAttempts' = reconnectionAttempts]_vars

\* a probe succeeded after scheduleReconnection had counted an attempt whose
\* timer is still armed
C30_Witness ==
  /\ isConnected
  /\ reconnectionAttempts = 0
  /\ reconnectTimers > 0
  /\ faults > 0

\* ------------------------------------------------------------------------
\* Claims about the aggregator
\* ------------------------------------------------------------------------
Last(list) == list[Len(list)]
\* a step of the sampling interval
IsTick == sampleInterval /\ now' > now
InDomain(m) ==
  /\ m.cpu \in 0..100
  /\ m.memory \in Nat
  /\ m.network \in Nat

\* C11: every Sample appended by a tick aggregates only sources whose last
\* ingest is at most 5000 ms old; a source with now - lastSeen > 5000 ms
\* contributes nothing to tabCount, cpuTotal, memoryTotal or networkTotal.
C11_StalePurgedBeforeAggregation ==
  [][(IsTick /\ Last(samples').metrics.object = "aggregated")
       => LET fresh == {id \in DOMAIN pageMetrics :
                          now' - pageMetrics[id].timestamp <= staleAfter}
              m == Last(samples').metrics
          IN  /\ m.tabCount = Cardinality(fresh)
              /\ m.cpuTotal = SumOver(pageMetrics, fresh, "cpu")
              /\ m.memoryTotal = SumOver(pageMetrics, fresh, "memory")
              /\ m.networkTotal = SumOver(pageMetrics, fresh, "network")]_vars

\* C12: the energy of every Sample appended by a tick is its power times the
\* time elapsed since the previous tick (energy [mJ] * 1000 = power [mW] *
\* elapsed [ms]), whatever the spacing of the ticks.
C12_EnergyFromElapsedTime ==
  Len(samples) >= 2
    => Last(samples).energy * 1000 =
         Last(samples).power * (Last(samples).timestamp - samples[Len(samples) - 1].timestamp)

\* C13: after a tick the history holds at most maxSamples Samples, on the
\* exception path too, and a tick on a full history evicts its oldest Sample.
C13_HistoryBounded ==
  [][IsTick
       => /\ Len(samples') <= maxSamples
          /\ Len(samples) = maxSamples
               => SubSeq(samples', 1, maxSamples - 1) = Tail(samples)]_vars

\* C14: while profiling is active every tick appends exactly one Sample, the
\* fallback Sample with power 0.5 W and energy 0.5/3600 Wh when the
\* computation of the tick throws.
C14_EveryTickAppendsOne ==
  [][IsTick
       => /\ Len(samples') = Len(samples) + 1
          /\ SubSeq(samples', 1, Len(samples)) = samples
          /\ Last(samples').timestamp = now'
          /\ Last(samples').metrics.object = "empty"
               => (Last(samples').power = 500 /\ Last(samples').energy = 500)]_vars

C14_Witness ==
  /\ isProfiling
  /\ Len(samples) = 3
  /\ samples[1].metrics.object = "aggregated"
  /\ samples[2].metrics.object = "empty" /\ samples[2].power = 500
  /\ samples[3].metrics.object = "aggregated"

\* C15: whatever the fields of a reading, ingest stores for its tab values
\* inside the domains (cpu in [0,100], memory >= 0, network >= 0, all of them
\* numbers), and so does every entry of pageMetrics.
C15_IngestClamps ==
  /\ \A id \in DOMAIN pageMetrics : InDomain(pageMetrics[id])
  /\ \A tab \in TabIds, metrics \in WideReadings :
       LET pm == updatePageMetrics(pageMetrics, tab, metrics, now)
       IN  tab \in DOMAIN pm /\ InDomain(pm[tab])

C15_Witness ==
  /\ DOMAIN pageMetrics = TabIds
  /\ pageMetrics[1].cpu = 100
  /\ pageMetrics[2].memory = 0
  /\ response.success

\* C16: a setCO2Intensity request whose value is no finite number in
\* [0,1000] is answered {success: false, error} and leaves co2Intensity as it
\* was; a value in [0,1000] is answered {success: true} and becomes
\* co2Intensity.
C16_SetIntensityRejectsInvalid ==
  [][\A v \in Intensities :
       SetCO2IntensityWith(v)
         => IF Number(v).t = "number" /\ Number(v).v >= 0 /\ Number(v).v <= 1000
              THEN response' = Reply(TRUE, Undefined) /\ co2Intensity' = Number(v).v
              ELSE response' = errorReply /\ co2Intensity' = co2Intensity]_vars

\* C17: every setCO2Intensity request receives a response, also one without
\* the intensity field.
C17_SetIntensityAlwaysAnswers ==
  [][SetCO2Intensity => response'.sent]_vars

\* C18: every stopProfiling request is answered {success: true, summary} with
\* a summary object, also when profiling is not active.
C18_StopAnswersSummary ==
  [][StopProfiling
       => (response'.sent /\ response'.success /\ response'.payload.t = "summary")]_vars

\* C19: the reply of getCurrentMetrics carries power, energy and co2e of the
\* most recently appended Sample, and the zero-sample when there is none.
C19_CurrentIsLatest ==
  (response.sent /\ response.payload.t = "sample")
    => LET got == response.payload
       IN  IF samples = <<>>
             THEN got.power = 0 /\ got.energy = 0 /\ got.co2e = 0
             ELSE /\ got.power = Last(samples).power
                  /\ got.energy = Last(samples).energy
                  /\ got.co2e = Last(samples).co2e

C19_Witness ==
  /\ response.sent /\ response.payload.t = "sample"
  /\ Len(samples) >= 2
  /\ Last(samples).power # samples[1].power
  /\ response.payload.power = Last(samples).power

\* C20: a summary over the retained history has avgPower = totalEnergy /
\* (sampleCount / 3600); with no sample it is all zero; the divisor is never
\* zero.
C20_SummaryAverage ==
  (response.sent /\ response.payload.t = "summary")
    => LET got == response.payload
       IN  /\ got.sampleCount = Len(samples)
           /\ got.avgPower.den # 0
           /\ IF got.sampleCount = 0
                THEN got.totalEnergy = 0 /\ got.totalCO2e = 0 /\ got.avgPower.num = 0
                ELSE got.avgPower.num * got.sampleCount = got.totalEnergy * got.avgPower.den

C20_Witness ==
  /\ response.sent /\ response.payload.t = "summary"
  /\ response.payload.sampleCount = 3
  /\ samples[1].energy # samples[2].energy
  /\ response.payload.totalEnergy = samples[1].energy + samples[2].energy + samples[3].energy

\* a call of fn that has returned
Called1(fn) == call.fn = fn /\ call.done
IsNumber(x) == x.t = "number"

\* C21: getRangeSummary(start, end) on a range that contains no sample is
\* answered with totalEnergy 0, totalCO2e 0, avgPower 0, sampleCount 0 and
\* rangeDuration = (end - start) / 1000.
C21_EmptyRangeSummary ==
  [][\A a, b \in RangeTimes :
       (/\ GetRangeSummaryWith(a, b)
        /\ \A i \in 1..Len(samples) :
             ~(samples[i].timestamp >= a /\ samples[i].timestamp <= b))
       => /\ response'.sent /\ response'.success
          /\ response'.payload =
               [t |-> "range", totalEnergy |-> 0, totalCO2e |-> 0,
                avgPower |-> [num |-> 0, den |-> 1],
                rangeDuration |-> [num |-> b - a, den |-> 1000],
                sampleCount |-> 0]]_vars

\* a range of one second with no sample in it, asked for while samples exist
C21_Witness ==
  /\ response.sent
  /\ response.payload.t = "range"
  /\ response.payload.sampleCount = 0
  /\ response.payload.rangeDuration = [num |-> 1000, den |-> 1000]
  /\ Len(samples) > 0

C22_EstimateTotalAndBounded ==
  Called1("estimatePower") =>
    /\ IsNumber(call.out)
    /\ call.out.v >= 100 /\ call.out.v <= 100000
    /\ LET m == call.arg
       IN  (/\ m.t = "object"
            /\ \A f \in {"tabCount", "cpuTotal", "memoryTotal", "networkTotal"} :
                 IsNumber(m[f])
            /\ m.tabs.t = "array")
           => call.out.v =
                Max(100, Min(100000,
                    300 * Max(1, m.tabCount.v) + 20 * m.cpuTotal.v
                      + m.memoryTotal.v + m.networkTotal.v
                      + (IF m.tabs.v > 0 THEN 100 ELSE 0)))

\* a snapshot with a field that is no number, and one whose terms sum above
\* the clamp
C22_Witness ==
  /\ Called1("estimatePower")
  /\ call.arg.t = "object"
  /\ call.arg.cpuTotal = Num(100000)
  /\ call.arg.memoryTotal = Undefined
  /\ call.out = Num(500)

\* C24: calculateCO2e returns the product of the energy and co2Intensity when
\* that is a finite number >= 0 and 0 otherwise (0 for an energy or an
\* intensity that is NaN, infinite or no number), never NaN, an infinity or a
\* negative number; the Sample of every tick has co2e = energy * co2Intensity,
\* which is 0 when co2Intensity is 0.
C24_EmissionsWellFormed ==
  [][/\ (call'.fn = "calculateCO2e" /\ call'.done) =>
          LET e == Number(call'.arg[1])
              i == Number(call'.arg[2])
              out == call'.out
          IN  /\ IsNumber(out) /\ out.v >= 0
              /\ (IsNumber(e) /\ IsNumber(i))
                   => out.v = (IF e.v * i.v >= 0 THEN e.v * i.v ELSE 0)
              /\ (~IsNumber(e) \/ ~IsNumber(i)) => out = Num(0)
     /\ IsTick =>
          /\ Last(samples').co2e = Last(samples').energy * co2Intensity
          /\ Last(samples').co2e >= 0
          /\ co2Intensity = 0 => Last(samples').co2e = 0]_vars

\* a Sample of a tick at more than the base power while co2Intensity is 0
C24_Witness ==
  /\ co2Intensity = 0
  /\ Len(samples) > 0
  /\ Last(samples).timestamp = now
  /\ Last(samples).power > 300
  /\ Last(samples).energy > 0
  /\ Last(samples).co2e = 0

\* a step that answers an updatePageMetrics request with {success: true}
Ingested == response' = Reply(TRUE, Undefined) /\ now' = now /\ UNCHANGED samples

\* C25: purging pageMetrics of its old entries twice gives the same table as
\* purging it once, also right after an accepted ingest; the removal of a tab that has
\* no entry leaves pageMetrics unchanged, and removing a tab again changes
\* nothing.
C25_RemovalIdempotent ==
  [][/\ purgeStale(purgeStale(pageMetrics, now), now) = purgeStale(pageMetrics, now)
     /\ Ingested => purgeStale(pageMetrics', now') = pageMetrics'
     /\ \A tab \in TabIds :
          TabRemovedOf(tab)
            => /\ tab \notin DOMAIN pageMetrics => pageMetrics' = pageMetrics
               /\ deleteTab(pageMetrics', tab) = pageMetrics']_vars

\* two entries that a purge at this time deletes
C25_Witness ==
  /\ Cardinality({id \in DOMAIN pageMetrics :
                    now - pageMetrics[id].timestamp > staleAfter}) = 2
  /\ purgeStale(pageMetrics, now) = <<>>

\* C26: for every magnitude >= 0 formatPowerValue selects kW from 1000 W, W
\* from 1 W, mW from 0.001 W and the micro unit below, and displays the
\* magnitude scaled to that unit.
C26_PowerUnitByThreshold ==
  (Called1("formatPowerValue") /\ IsNumber(call.arg) /\ call.arg.v >= 0) =>
    LET w == call.arg.v
    IN  /\ call.out.unit = (IF w >= 1000000 THEN "kW"
                            ELSE IF w >= 1000 THEN "W"
                            ELSE IF w >= 1 THEN "mW" ELSE "uW")
        /\ call.out.value = (IF w >= 1000000 THEN [num |-> w, den |-> 1000000]
                             ELSE IF w >= 1000 THEN [num |-> w, den |-> 1000]
                             ELSE IF w >= 1 THEN [num |-> w, den |-> 1]
                             ELSE [num |-> w * 1000, den |-> 1])

\* C27: each formatter maps NaN, an infinity and a negative number to its
\* result for 0, and that result displays 0.
Formatted(fn, x) ==
  CASE fn = "formatPowerValue" -> formatPowerValue(x)
    [] fn = "formatEnergyValue" -> formatEnergyValue(x)
    [] fn = "formatCO2Value" -> formatCO2Value(x)
C27_InvalidInputIsZeroCase ==
  \A fn \in {"formatPowerValue", "formatEnergyValue", "formatCO2Value"} :
    (/\ Called1(fn)
     /\ \/ call.arg.t \in {"NaN", "Infinity", "-Infinity"}
        \/ IsNumber(call.arg) /\ call.arg.v < 0)
    => /\ call.out = Formatted(fn, Num(0))
       /\ call.out.value.num = 0

\* C31: a setCO2Intensity request changes nothing but co2Intensity: the
\* samples and the history stay as they are, and the Sample a later tick
\* appends is priced with the intensity of that moment while the earlier
\* Samples keep their co2e.
C31_SetIntensityNotRetroactive ==
  [][/\ SetCO2Intensity
          => UNCHANGED <<samples, metricsHistory, startTime, isProfiling,
                         sampleInterval, tickTimers, pageMetrics, now>>
     /\ IsTick
          => /\ SubSeq(samples', 1, Len(samples)) = samples
             /\ Last(samples').co2e = Last(samples').energy * co2Intensity]_vars

\* two Samples of one run priced with different intensities
C31_Witness ==
  /\ Len(samples) >= 2
  /\ co2Intensity = 1000
  /\ samples[1].co2e = samples[1].energy * defaultCO2Intensity
  /\ samples[2].co2e = samples[2].energy * 1000

\* C32: for a range [start, end] that contains the timestamp of every sample,
\* getRangeSummary(start, end) has the totalEnergy, totalCO2e, sampleCount and
\* avgPower of getSummary().
C32_RangeEqualsSummary ==
  [][\A a, b \in RangeTimes :
       (/\ GetRangeSummaryWith(a, b)
        /\ \A i \in 1..Len(samples) :
             samples[i].timestamp >= a /\ samples[i].timestamp <= b)
       => LET range == response'.payload
              full == getSummary(samples)
          IN  /\ range.totalEnergy = full.totalEnergy
              /\ range.totalCO2e = full.totalCO2e
              /\ range.sampleCount = full.sampleCount
              /\ range.avgPower.num * full.avgPower.den
                   = full.avgPower.num * range.avgPower.den]_vars

\* two ingests, from tab a at t1 and from tab b at t2
IngestBoth(pm, a, ma, t1, b, mb, t2) ==
  updatePageMetrics(updatePageMetrics(pm, a, ma, t1), b, mb, t2)
SourceIds == {1, 2, 3}
OrderGaps == {0, 500}

C40_OneTickTimer ==
  /\ [](/\ tickTimers = (IF isProfiling THEN 1 ELSE 0)
        /\ sampleInterval <=> isProfiling)
  /\ [][/\ (isProfiling /\ StartProfiling) => UNCHANGED <<samples, tickTimers>>
        /\ ~isProfiling => (samples' = samples \/ samples' = <<>>)]_vars
C40_Witness ==
  /\ isProfiling /\ sampleInterval /\ tickTimers = 1
  /\ Len(samples) >= 2
  /\ response = Reply(TRUE, Undefined)

\* the step is a call of collectMetrics
Collected == call'.fn = "collectMetrics" /\ call' # call /\ UNCHANGED pageVars

\* C35: the network count of a Reading is the number of resource / navigation
\* / paint events observed during the 60 s before the Reading is collected.
C35_NetworkCountOfLastMinute ==
  [][Collected =>
       call'.out.network =
         Cardinality({i \in DOMAIN signalBuffers.network :
                        signalBuffers.network[i].startTime > perfNow - networkWindow})]_vars

\* C36: loadTime, domReady and interactive of a Reading are never negative,
\* also while the document is still loading.
C36_TimingsNonNegative ==
  [][Collected => /\ call'.out.timings.loadTime >= 0
                  /\ call'.out.timings.domReady >= 0
                  /\ call'.out.timings.interactive >= 0]_vars

\* the newer buffer holds the most recent entries of the older one, in their
\* order, followed by at most MaxBatch new entries
FifoStep(old, new, cap) ==
  \/ new = old
  \/ \E n \in 1..MaxBatch :
       /\ Len(new) = Min(cap, Len(old) + n)
       /\ SubSeq(new, 1, Len(new) - n) = LastN(old, Len(new) - n)

\* C37: the signal buffers of the producer are bounded, network by 1000
\* entries, memory and cpu by 100 each, and a push at capacity drops the
\* oldest entry.
C37_SignalBuffersBounded ==
  /\ [](/\ Len(signalBuffers.network) <= networkCap
        /\ Len(signalBuffers.memory) <= memoryCap
        /\ Len(signalBuffers.cpu) <= cpuCap)
  /\ [][/\ FifoStep(signalBuffers.network, signalBuffers'.network, networkCap)
        /\ FifoStep(signalBuffers.memory, signalBuffers'.memory, memoryCap)
        /\ FifoStep(signalBuffers.cpu, signalBuffers'.cpu, cpuCap)]_vars
C37_Witness ==
  /\ Len(signalBuffers.network) = networkCap
  /\ signalBuffers.network[1].name = MaxEvents
  /\ signalBuffers.network[networkCap].name = networkCap + MaxEvents - 1
  /\ Len(signalBuffers.memory) = memoryCap
  /\ signalBuffers.memory[1].timestamp = DateNow(2 * memoryPeriod)
  /\ Len(signalBuffers.cpu) = cpuCap
  /\ signalBuffers.cpu[cpuCap].timestamp > DateNow(LongPageTime)

\* C33: the co2Intensity the aggregator uses for a tick is the value last
\* persisted in the key-value store (the default while nothing is stored),
\* after any sequence of settings saves, answered or not, and restarts of
\* the aggregator.
C33_IntensityIsPersistedValue ==
  [][IsTick => co2Intensity = (IF storage = Undefined THEN defaultCO2Intensity
                               ELSE storage.v)]_vars

\* C34: once stopMonitoring has run (and until startMonitoring runs again) no
\* sampling tick runs: no Reading is collected, sent or cached by a tick,
\* whatever calls of startMonitoring and stopMonitoring came before.
C34_DetachStopsSampling ==
  [][~metricsInterval => nextId' = nextId]_vars

\* C39: at most one setTimeout of scheduleReconnection is pending at any time.
C39_OneReconnectTimer == reconnectTimers <= 1

====
